---- MODULE Spec2Model ----
(***************************************************************************)
(* Model of the LogBull JavaScript client: the Sender (bounded queue,      *)
(* batch scheduler, in-flight accounting, shutdown) of core/sender.ts and  *)
(* the process-wide timestamp generator of core/timestamp.ts.              *)
(*                                                                         *)
(* JavaScript runs every callback to completion on one thread, so one      *)
(* action is one synchronous run: a public call up to its first await, a   *)
(* timer callback, or the continuation of a settled promise.               *)
(***************************************************************************)
EXTENDS Integers, Sequences, FiniteSets, TLC

(***************************************************************************)
(* Sizes.  The program's BATCH_SIZE is 1_000 and its QUEUE_CAPACITY is     *)
(* 10_000 (sender.ts); the model keeps the names and the relation          *)
(* BATCH_SIZE < QUEUE_CAPACITY and scales the values so that a full queue  *)
(* and a queue longer than one batch are both reached.                     *)
(***************************************************************************)
BATCH_SIZE == 2

QUEUE_CAPACITY == 3

\* number of addLog calls explored (each call carries a fresh entry)
MaxLogs == 5

\* const maxWaitTime = 5000 in shutdown(), and the setTimeout(resolve, 100)
maxWaitTime == 5000

PollIntervalMs == 100

\* a setTimeout callback never runs early, it may run late: the values of
\* Date.now() - startTime that a resumed wait loop may read
LateWakeMs == 2500

ElapsedReadings == {PollIntervalMs, LateWakeMs, maxWaitTime}

\* terminal paths of sendHTTPRequest once the request was issued:
\*   "badStatus"     the status is neither 200 nor 202
\*   "parseError"    JSON.parse(response.body) throws
\*   "nullBody"      the body is the JSON text null: JSON.parse returns null and
\*                   reading responseData.rejected throws a TypeError
\*   "ok"            the parsed value has no rejected > 0
\*   "rejected"      the parsed value has rejected > 0
\*   "networkError"  makeRequest rejects (failure, abort)
Outcomes == {"ok", "rejected", "badStatus", "parseError", "nullBody", "networkError"}

Min(a, b) == IF a <= b THEN a ELSE b

\* one console.error report; index and entry are set on the per-entry report
\* of a rejected log (index -1 and entry 0 otherwise)
Diag(kind, index, entry) == [kind |-> kind, index |-> index, entry |-> entry]

\* a run that settles no request
NoResponse == [request |-> 0, errors |-> <<>>]

\* the errors lists (batch-relative indexes, in order) a response may carry
ErrorLists == {<<>>, <<0>>, <<1, 0>>, <<-1>>, <<BATCH_SIZE>>, <<0, BATCH_SIZE>>}

VARIABLES
  logQueue,          \* Sender.logQueue: entries, head first
  intervalId,        \* Sender.intervalId: "active" or "null"
  stopped,           \* Sender.stopped
  inFlightRequests,  \* Sender.inFlightRequests
  requests,          \* every sendHTTPRequest(logs) call so far, in start order:
                     \* its batch, and whether it is "inflight" (makeRequest
                     \* awaits fetch), "receiving" (makeRequest awaits the
                     \* body) or "settled" (its promise is fulfilled)
  shutdownPc,        \* the shutdown() call that passed the stopped guard
  elapsed,           \* Date.now() - startTime as that call last read it
  addLogCalls,       \* number of addLog calls made (the next entry is addLogCalls + 1)
  accepted,          \* the entries addLog pushed onto the queue
  lastOp,            \* the last run: which operation, and how it ended
  diagnostics,       \* the console.error lines the last run wrote
  response           \* the request the last run settled, and the errors list it received

senderVars == <<logQueue, intervalId, stopped, inFlightRequests, requests,
                shutdownPc, elapsed, addLogCalls, accepted, lastOp,
                diagnostics, response>>

VARIABLES
  lastTimestampNs,      \* module-level lastTimestampNs
  baselineWallClockMs,  \* module-level baselineWallClockMs
  baselineHrtimeNs,     \* module-level baselineHrtimeNs, HrNull before the first call
  hrtime,               \* the process's monotonic clock, process.hrtime.bigint()
  returned              \* the nanosecond values returned so far, in call order

tsVars == <<lastTimestampNs, baselineWallClockMs, baselineHrtimeNs, hrtime, returned>>

VARIABLES
  config,    \* the Config given to new LogBullLogger(config), after trim():
             \* whether projectId and host are non-empty, and logLevel
  sender,    \* LogBullLogger.sender: "sender", or "null" in console-only mode
  minLevel,  \* LogBullLogger.minLevel
  printed,   \* the entries printToConsole wrote, in order
  logCall    \* the arguments of the log call the last run made, NoCall otherwise

loggerVars == <<config, sender, minLevel, printed, logCall>>

VARIABLES
  owner,       \* the object that constructed the Sender and holds it:
               \* "LogBullLogger", "LogBullTransport" or "LogBullPinoTransport"
  immediates,  \* the setImmediate callbacks LogBullTransport.log() scheduled
               \* and the event loop has not run yet, oldest first: the info
               \* each one closes over
  callbacks    \* how many times the callback of each LogBullTransport.log()
               \* call was invoked, in call order

transportVars == <<owner, immediates, callbacks>>

VARIABLES
  loggers,   \* sender, minLevel and context of every LogBullLogger object,
             \* in creation order: the constructed logger first, then those
             \* withContext returned
  entries,   \* message and fields of every LogEntry built, in creation order
  logInput   \* the logger, message and fields of the log call the last run
             \* made, NoInput otherwise

entryVars == <<loggers, entries, logInput>>

vars == <<senderVars, tsVars, loggerVars, transportVars, entryVars>>

\* the last run was not a call of LogBullLogger.log
NoCall == [level |-> "none", validMessage |-> TRUE, validFields |-> TRUE]

NoInput == [logger |-> 0]

\* a run outside LogBullLogger.log and outside the transports leaves the
\* logger's fields, the deferred callbacks and the entries built alone
NotALogCall ==
  /\ logCall' = NoCall
  /\ logInput' = NoInput
  /\ UNCHANGED <<config, sender, minLevel, printed>>
  /\ UNCHANGED <<transportVars, loggers, entries>>

(***************************************************************************)
(* Array.prototype.splice(start, deleteCount): the removed elements, and   *)
(* the array that is left.                                                 *)
(***************************************************************************)
\* variant: the elements are taken from the tail of the array
SpliceRemovedFromTail(arr, start, deleteCount) ==
  SubSeq(arr, Len(arr) - Min(deleteCount, Len(arr)) + 1, Len(arr))

SpliceRemoved(arr, start, deleteCount) ==
  SubSeq(arr, start + 1, Min(start + deleteCount, Len(arr)))

\* variant: slice() in place of splice(), the array keeps every element
SpliceRemainingKeepsAll(arr, start, deleteCount) == arr

SpliceRemaining(arr, start, deleteCount) ==
  SubSeq(arr, 1, start) \o SubSeq(arr, Min(start + deleteCount, Len(arr)) + 1, Len(arr))

(***************************************************************************)
(* sendHTTPRequest(logs), up to its first await: the counter is            *)
(* incremented and the request is issued.                                  *)
(***************************************************************************)
SendHTTPRequest(logs) ==
  /\ inFlightRequests' = inFlightRequests + 1
  /\ requests' = Append(requests, [logs |-> logs, status |-> "inflight"])

\* variant: no early return on an empty queue
SendBatchNoEmptyCheck ==
  /\ logQueue' = SpliceRemaining(logQueue, 0, BATCH_SIZE)
  /\ SendHTTPRequest(SpliceRemoved(logQueue, 0, BATCH_SIZE))

\* the queue cut into batches of at most BATCH_SIZE entries, head first
RECURSIVE AllBatches(_)
AllBatches(queue) ==
  IF Len(queue) = 0
  THEN <<>>
  ELSE <<[logs |-> SpliceRemoved(queue, 0, BATCH_SIZE), status |-> "inflight"]>>
         \o AllBatches(SpliceRemaining(queue, 0, BATCH_SIZE))

\* variant: one trigger loops until the queue is empty
SendBatchDrainsAll ==
  /\ logQueue' = <<>>
  /\ requests' = requests \o AllBatches(logQueue)
  /\ inFlightRequests' = inFlightRequests + Len(AllBatches(logQueue))

\* variant: a batch is taken only while no dispatch is in flight
SendBatchSerialized ==
  IF Len(logQueue) = 0 \/ inFlightRequests > 0
  THEN UNCHANGED <<logQueue, inFlightRequests, requests>>
  ELSE /\ logQueue' = SpliceRemaining(logQueue, 0, BATCH_SIZE)
       /\ SendHTTPRequest(SpliceRemoved(logQueue, 0, BATCH_SIZE))

\* variant: a batch is taken only once BATCH_SIZE entries are queued
SendBatchOnlyFullBatches ==
  IF Len(logQueue) < BATCH_SIZE
  THEN UNCHANGED <<logQueue, inFlightRequests, requests>>
  ELSE /\ logQueue' = SpliceRemaining(logQueue, 0, BATCH_SIZE)
       /\ SendHTTPRequest(SpliceRemoved(logQueue, 0, BATCH_SIZE))

(***************************************************************************)
(* sendBatch()                                                             *)
(***************************************************************************)
SendBatch ==
  IF Len(logQueue) = 0
  THEN UNCHANGED <<logQueue, inFlightRequests, requests>>
  ELSE /\ logQueue' = SpliceRemaining(logQueue, 0, BATCH_SIZE)
       /\ SendHTTPRequest(SpliceRemoved(logQueue, 0, BATCH_SIZE))

\* variant: the capacity test is > where the code has >=
AddLogOffByOne(entry) ==
  IF stopped
  THEN /\ lastOp' = [op |-> "addLog", result |-> "droppedStopped"]
       /\ diagnostics' = <<>>
       /\ UNCHANGED <<logQueue, accepted>>
  ELSE IF Len(logQueue) > QUEUE_CAPACITY
  THEN /\ lastOp' = [op |-> "addLog", result |-> "droppedFull"]
       /\ diagnostics' = <<Diag("queueFull", -1, 0)>>
       /\ UNCHANGED <<logQueue, accepted>>
  ELSE /\ logQueue' = Append(logQueue, entry)
       /\ accepted' = accepted \cup {entry}
       /\ lastOp' = [op |-> "addLog", result |-> "queued"]
       /\ diagnostics' = <<>>

\* variant: a full queue evicts its oldest entry to take the new one
AddLogEvictOldest(entry) ==
  IF stopped
  THEN /\ lastOp' = [op |-> "addLog", result |-> "droppedStopped"]
       /\ diagnostics' = <<>>
       /\ UNCHANGED <<logQueue, accepted>>
  ELSE IF Len(logQueue) >= QUEUE_CAPACITY
  THEN /\ logQueue' = Append(Tail(logQueue), entry)
       /\ accepted' = accepted \cup {entry}
       /\ lastOp' = [op |-> "addLog", result |-> "droppedFull"]
       /\ diagnostics' = <<Diag("queueFull", -1, 0)>>
  ELSE /\ logQueue' = Append(logQueue, entry)
       /\ accepted' = accepted \cup {entry}
       /\ lastOp' = [op |-> "addLog", result |-> "queued"]
       /\ diagnostics' = <<>>

\* variant: no test of the stopped flag
AddLogIgnoresStopped(entry) ==
  IF Len(logQueue) >= QUEUE_CAPACITY
  THEN /\ lastOp' = [op |-> "addLog", result |-> "droppedFull"]
       /\ diagnostics' = <<Diag("queueFull", -1, 0)>>
       /\ UNCHANGED <<logQueue, accepted>>
  ELSE /\ logQueue' = Append(logQueue, entry)
       /\ accepted' = accepted \cup {entry}
       /\ lastOp' = [op |-> "addLog", result |-> "queued"]
       /\ diagnostics' = <<>>

(***************************************************************************)
(* addLog(entry)                                                           *)
(***************************************************************************)
AddLog(entry) ==
  IF stopped
  THEN /\ lastOp' = [op |-> "addLog", result |-> "droppedStopped"]
       /\ diagnostics' = <<>>
       /\ UNCHANGED <<logQueue, accepted>>
  ELSE IF Len(logQueue) >= QUEUE_CAPACITY
  THEN /\ lastOp' = [op |-> "addLog", result |-> "droppedFull"]
       /\ diagnostics' = <<Diag("queueFull", -1, 0)>>
       /\ UNCHANGED <<logQueue, accepted>>
  ELSE /\ logQueue' = Append(logQueue, entry)
       /\ accepted' = accepted \cup {entry}
       /\ lastOp' = [op |-> "addLog", result |-> "queued"]
       /\ diagnostics' = <<>>

\* variant: an addLog that fills a batch sends it at once
AddLogCallSizeTriggered ==
  /\ addLogCalls < MaxLogs
  /\ addLogCalls' = addLogCalls + 1
  /\ response' = NoResponse
  /\ diagnostics' = <<>>
  /\ IF stopped
     THEN /\ lastOp' = [op |-> "addLog", result |-> "droppedStopped"]
          /\ UNCHANGED <<logQueue, accepted, inFlightRequests, requests>>
     ELSE /\ accepted' = accepted \cup {addLogCalls + 1}
          /\ lastOp' = [op |-> "addLog", result |-> "queued"]
          /\ IF Len(logQueue) + 1 >= BATCH_SIZE
             THEN /\ logQueue' = <<>>
                  /\ requests' = Append(requests,
                                    [logs |-> Append(logQueue, addLogCalls + 1),
                                     status |-> "inflight"])
                  /\ inFlightRequests' = inFlightRequests + 1
             ELSE /\ logQueue' = Append(logQueue, addLogCalls + 1)
                  /\ UNCHANGED <<inFlightRequests, requests>>
  /\ UNCHANGED <<intervalId, stopped, shutdownPc, elapsed>>

AddLogCall ==
  /\ addLogCalls < MaxLogs
  /\ addLogCalls' = addLogCalls + 1
  /\ AddLog(addLogCalls + 1)
  /\ response' = NoResponse
  /\ UNCHANGED <<intervalId, stopped, inFlightRequests, requests, shutdownPc, elapsed>>

(***************************************************************************)
(* flush()                                                                 *)
(***************************************************************************)
Flush ==
  /\ SendBatch
  /\ lastOp' = [op |-> "flush",
                result |-> IF Len(logQueue) = 0 THEN "empty" ELSE "sent"]
  /\ diagnostics' = <<>>

FlushCall ==
  /\ Flush
  /\ response' = NoResponse
  /\ UNCHANGED <<intervalId, stopped, shutdownPc, elapsed, addLogCalls, accepted>>

(***************************************************************************)
(* The setInterval callback of startBatchProcessor(); clearInterval        *)
(* cancels it.                                                             *)
(***************************************************************************)
TimerTick ==
  /\ intervalId = "active"
  /\ SendBatch
  /\ lastOp' = [op |-> "timer",
                result |-> IF Len(logQueue) = 0 THEN "empty" ELSE "sent"]
  /\ diagnostics' = <<>>
  /\ response' = NoResponse
  /\ UNCHANGED <<intervalId, stopped, shutdownPc, elapsed, addLogCalls, accepted>>

(***************************************************************************)
(* shutdown(), up to its first await (or to its return)                    *)
(***************************************************************************)
\* variant: the loop has no ceiling
WaitLoopNoCeiling(inFlight, waited) ==
  inFlight > 0

\* variant: the loop stops while one request is still in flight
WaitLoopOffByOne(inFlight, waited) ==
  inFlight > 1 /\ waited < maxWaitTime

WaitLoopContinues(inFlight, waited) ==
  inFlight > 0 /\ waited < maxWaitTime

\* variant: no early return when the sender is already stopped
ShutdownNoGuard ==
  /\ diagnostics' = <<>>
  /\ stopped' = TRUE
  /\ intervalId' = "null"
  /\ SendBatch
  /\ elapsed' = 0
  /\ IF WaitLoopContinues(inFlightRequests', 0)
     THEN /\ shutdownPc' = "waiting"
          /\ lastOp' = [op |-> "shutdown", result |-> "waiting"]
     ELSE /\ shutdownPc' = "resolved"
          /\ lastOp' = [op |-> "shutdown", result |-> "resolved"]

\* variant: the interval is not cleared
ShutdownKeepsTimer ==
  IF stopped
  THEN /\ lastOp' = [op |-> "shutdown", result |-> "alreadyStopped"]
       /\ diagnostics' = <<>>
       /\ UNCHANGED <<logQueue, intervalId, stopped, inFlightRequests, requests,
                      shutdownPc, elapsed>>
  ELSE /\ diagnostics' = <<>>
       /\ stopped' = TRUE
       /\ UNCHANGED intervalId
       /\ SendBatch
       /\ elapsed' = 0
       /\ IF WaitLoopContinues(inFlightRequests', 0)
          THEN /\ shutdownPc' = "waiting"
               /\ lastOp' = [op |-> "shutdown", result |-> "waiting"]
          ELSE /\ shutdownPc' = "resolved"
               /\ lastOp' = [op |-> "shutdown", result |-> "resolved"]

\* variant: the early return is taken only once an earlier shutdown() has
\* resolved
ShutdownGuardsOnResolved ==
  IF shutdownPc = "resolved"
  THEN /\ lastOp' = [op |-> "shutdown", result |-> "alreadyStopped"]
       /\ diagnostics' = <<>>
       /\ UNCHANGED <<logQueue, intervalId, stopped, inFlightRequests, requests,
                      shutdownPc, elapsed>>
  ELSE /\ diagnostics' = <<>>
       /\ stopped' = TRUE
       /\ intervalId' = "null"
       /\ SendBatch
       /\ elapsed' = 0
       /\ IF WaitLoopContinues(inFlightRequests', 0)
          THEN /\ shutdownPc' = "waiting"
               /\ lastOp' = [op |-> "shutdown", result |-> "waiting"]
          ELSE /\ shutdownPc' = "resolved"
               /\ lastOp' = [op |-> "shutdown", result |-> "resolved"]

Shutdown ==
  IF stopped
  THEN /\ lastOp' = [op |-> "shutdown", result |-> "alreadyStopped"]
       /\ diagnostics' = <<>>
       /\ UNCHANGED <<logQueue, intervalId, stopped, inFlightRequests, requests,
                      shutdownPc, elapsed>>
  ELSE /\ diagnostics' = <<>>
       /\ stopped' = TRUE
       /\ intervalId' = "null"
       /\ SendBatch
       /\ elapsed' = 0
       /\ IF WaitLoopContinues(inFlightRequests', 0)
          THEN /\ shutdownPc' = "waiting"
               /\ lastOp' = [op |-> "shutdown", result |-> "waiting"]
          ELSE /\ shutdownPc' = "resolved"
               /\ lastOp' = [op |-> "shutdown", result |-> "resolved"]

ShutdownCall ==
  /\ Shutdown
  /\ response' = NoResponse
  /\ UNCHANGED <<addLogCalls, accepted>>

\* variant: a wait loop that ends at the ceiling aborts the requests still
\* in flight
ShutdownWakeAborts ==
  /\ shutdownPc = "waiting"
  /\ diagnostics' = <<>>
  /\ response' = NoResponse
  /\ \E now \in ElapsedReadings :
       /\ now >= elapsed + PollIntervalMs
       /\ elapsed' = now
       /\ IF WaitLoopContinues(inFlightRequests, elapsed')
          THEN /\ shutdownPc' = "waiting"
               /\ lastOp' = [op |-> "shutdownWake", result |-> "waiting"]
               /\ UNCHANGED <<requests, inFlightRequests>>
          ELSE /\ shutdownPc' = "resolved"
               /\ lastOp' = [op |-> "shutdownWake", result |-> "resolved"]
               /\ requests' = [r \in DOMAIN requests |->
                                 [requests[r] EXCEPT !.status = "settled"]]
               /\ inFlightRequests' = 0
  /\ UNCHANGED <<logQueue, intervalId, stopped, addLogCalls, accepted>>

(***************************************************************************)
(* shutdown(), resumed by the setTimeout(resolve, 100) of its wait loop    *)
(***************************************************************************)
ShutdownWake ==
  /\ shutdownPc = "waiting"
  /\ diagnostics' = <<>>
  /\ response' = NoResponse
  /\ \E now \in ElapsedReadings :
       /\ now >= elapsed + PollIntervalMs
       /\ elapsed' = now
       /\ IF WaitLoopContinues(inFlightRequests, elapsed')
          THEN /\ shutdownPc' = "waiting"
               /\ lastOp' = [op |-> "shutdownWake", result |-> "waiting"]
          ELSE /\ shutdownPc' = "resolved"
               /\ lastOp' = [op |-> "shutdownWake", result |-> "resolved"]
  /\ UNCHANGED <<logQueue, intervalId, stopped, inFlightRequests, requests,
                 addLogCalls, accepted>>

\* variant: the index of an error is taken as a position counted from 1
HandleRejectedLogsOneBased(errors, sentLogs) ==
  LET reported == SelectSeq(errors, LAMBDA index : index >= 1 /\ index <= Len(sentLogs))
  IN  <<Diag("rejectedSummary", -1, 0)>>
        \o (IF Len(errors) > 0
            THEN <<Diag("rejectedDetails", -1, 0)>>
                   \o [k \in 1..Len(reported) |->
                         Diag("rejectedEntry", reported[k], sentLogs[reported[k]])]
            ELSE <<>>)

(***************************************************************************)
(* handleRejectedLogs(response, sentLogs): the summary line, then, when    *)
(* the errors list is not empty, a header and one report per error whose   *)
(* index lies within the batch.                                            *)
(***************************************************************************)
HandleRejectedLogs(errors, sentLogs) ==
  LET reported == SelectSeq(errors, LAMBDA index : index >= 0 /\ index < Len(sentLogs))
  IN  <<Diag("rejectedSummary", -1, 0)>>
        \o (IF Len(errors) > 0
            THEN <<Diag("rejectedDetails", -1, 0)>>
                   \o [k \in 1..Len(reported) |->
                         Diag("rejectedEntry", reported[k], sentLogs[reported[k] + 1])]
            ELSE <<>>)

\* what sendHTTPRequest reports on each of its paths after the await
SettleDiagnostics(outcome, errors, sentLogs) ==
  CASE outcome = "badStatus" -> <<Diag("serverStatus", -1, 0)>>
    [] outcome = "networkError" -> <<Diag("requestFailed", -1, 0)>>
    [] outcome = "nullBody" -> <<Diag("requestFailed", -1, 0)>>
    [] outcome = "rejected" -> HandleRejectedLogs(errors, sentLogs)
    [] OTHER -> <<>>

\* variant: the counter is decremented at the end of the try block, so the
\* early returns and the catch path skip it
SettleRequestNoFinally(i, outcome, errors) ==
  /\ requests[i].status = "inflight"
  /\ requests' = [requests EXCEPT ![i].status = "settled"]
  /\ inFlightRequests' = IF outcome \in {"ok", "rejected"}
                         THEN inFlightRequests - 1
                         ELSE inFlightRequests
  /\ lastOp' = [op |-> "settle", result |-> outcome]
  /\ diagnostics' = SettleDiagnostics(outcome, errors, requests[i].logs)
  /\ response' = [request |-> i, errors |-> errors]
  /\ UNCHANGED logQueue

\* variant: a failed batch is put back at the head of the queue
SettleRequestRequeues(i, outcome, errors) ==
  /\ requests[i].status = "inflight"
  /\ requests' = [requests EXCEPT ![i].status = "settled"]
  /\ inFlightRequests' = inFlightRequests - 1
  /\ lastOp' = [op |-> "settle", result |-> outcome]
  /\ diagnostics' = SettleDiagnostics(outcome, errors, requests[i].logs)
  /\ response' = [request |-> i, errors |-> errors]
  /\ logQueue' = IF outcome \in {"badStatus", "networkError"}
                 THEN requests[i].logs \o logQueue
                 ELSE logQueue

\* variant: no catch block, a failed request rejects the promise
SettleRequestNoCatch(i, outcome, errors) ==
  /\ requests[i].status = "inflight"
  /\ requests' = [requests EXCEPT ![i].status =
                    IF outcome = "networkError" THEN "rejected" ELSE "settled"]
  /\ inFlightRequests' = inFlightRequests - 1
  /\ lastOp' = [op |-> "settle", result |-> outcome]
  /\ diagnostics' = IF outcome = "networkError"
                    THEN <<>>
                    ELSE SettleDiagnostics(outcome, errors, requests[i].logs)
  /\ response' = [request |-> i, errors |-> errors]
  /\ UNCHANGED logQueue

(***************************************************************************)
(* sendHTTPRequest(logs), resumed when makeRequest settles: every path     *)
(* (return in the try block, catch) runs the finally block, and the        *)
(* promise of the async function is fulfilled.                             *)
(***************************************************************************)
SettleRequest(i, outcome, errors) ==
  /\ requests[i].status # "settled"
  /\ requests' = [requests EXCEPT ![i].status = "settled"]
  /\ inFlightRequests' = inFlightRequests - 1
  /\ lastOp' = [op |-> "settle", result |-> outcome]
  /\ diagnostics' = SettleDiagnostics(outcome, errors, requests[i].logs)
  /\ response' = [request |-> i, errors |-> errors]
  /\ UNCHANGED logQueue

RequestSettles ==
  /\ \E i \in 1..Len(requests) : \E outcome \in Outcomes : \E errors \in ErrorLists :
       /\ (outcome \notin {"ok", "rejected"} => errors = <<>>)
       /\ SettleRequest(i, outcome, errors)
  /\ UNCHANGED <<intervalId, stopped, shutdownPc, elapsed, addLogCalls, accepted>>

(***************************************************************************)
(* makeRequest(url, data, headers) with the native fetch, resumed when     *)
(* fetch resolves with the response: clearTimeout(timeout) cancels the     *)
(* abort timer, and the body is awaited with response.text().              *)
(***************************************************************************)
ResponseArrives ==
  /\ \E i \in 1..Len(requests) :
       /\ requests[i].status = "inflight"
       /\ requests' = [requests EXCEPT ![i].status = "receiving"]
  /\ lastOp' = [op |-> "response", result |-> "timerCleared"]
  /\ diagnostics' = <<>>
  /\ response' = NoResponse
  /\ UNCHANGED <<logQueue, intervalId, stopped, inFlightRequests, shutdownPc,
                 elapsed, addLogCalls, accepted>>

(***************************************************************************)
(* The setTimeout(() => controller.abort(), HTTP_TIMEOUT_MS) callback of   *)
(* makeRequest, armed until clearTimeout: fetch rejects, makeRequest       *)
(* rethrows, and sendHTTPRequest runs its catch and finally blocks.        *)
(***************************************************************************)
RequestTimeout ==
  /\ \E i \in 1..Len(requests) :
       /\ requests[i].status = "inflight"
       /\ SettleRequest(i, "networkError", <<>>)
  /\ UNCHANGED <<intervalId, stopped, shutdownPc, elapsed, addLogCalls, accepted>>

(***************************************************************************)
(* The timestamp generator.                                                *)
(*                                                                         *)
(* lastTimestampNs and the candidate are JavaScript numbers, IEEE-754      *)
(* doubles.  Date.now() * 1_000_000 is about 1.7e18 for any date between   *)
(* 2006 and 2043, inside [2^60, 2^61), where consecutive doubles are 256   *)
(* apart.  The model writes a nanosecond value as its offset from          *)
(* WindowBase = 1_700_000_000_000 ms * 1_000_000 = 1.7e18 ns (2023-11-14), *)
(* an even multiple of 256, and a Date.now() reading as its offset in ms   *)
(* from 1_700_000_000_000; within the window the result of every           *)
(* arithmetic operation is the exact result rounded to the nearest         *)
(* multiple of 256, ties to the even multiple.                             *)
(***************************************************************************)
UlpNs == 256

NsPerMs == 1000000

\* the initial lastTimestampNs = 0 lies below the window: it is smaller than
\* every candidate, and the first call overwrites it without adding to it
ZeroNs == -1

\* baselineHrtimeNs = null
HrNull == -1

\* number of generateUniqueTimestamp calls explored
MaxTsCalls == 4

\* Date.now() at the first call, in ms after 1_700_000_000_000
DateNowReadings == {0, 1, 3}

\* nanoseconds the monotonic clock advances between two readings
HrtimeSteps == {0, 1, 100, 200, 500}

RoundToDouble(x) ==
  LET q == x \div UlpNs
      r == x % UlpNs
  IN  IF 2 * r < UlpNs THEN q * UlpNs
      ELSE IF 2 * r > UlpNs THEN (q + 1) * UlpNs
      ELSE IF q % 2 = 0 THEN q * UlpNs
      ELSE (q + 1) * UlpNs

\* a + b and a * b on numbers
NumAdd(a, b) == RoundToDouble(a + b)

NumMul(a, b) == RoundToDouble(a * b)

\* the monotonic-ordering step on the candidate currentNsNumber
NextTimestampNs(last, currentNsNumber) ==
  IF currentNsNumber <= last
  THEN NumAdd(last, 1)
  ELSE currentNsNumber

\* variant: every call captures the baseline anew
GenerateUniqueTimestampRecaptures(wall, d1, d2) ==
  LET wallMs == wall
      baseHr == hrtime + d1
      currentHrtimeNs == hrtime + d1 + d2
      elapsedNs == currentHrtimeNs - baseHr
      baselineNs == NumMul(wallMs, NsPerMs)
      currentNsNumber == NumAdd(baselineNs, elapsedNs)
  IN  /\ baselineWallClockMs' = wallMs
      /\ baselineHrtimeNs' = baseHr
      /\ hrtime' = currentHrtimeNs
      /\ lastTimestampNs' = NextTimestampNs(lastTimestampNs, currentNsNumber)
      /\ returned' = Append(returned, lastTimestampNs')

(***************************************************************************)
(* generateUniqueTimestamp(): wall is what Date.now() reads if this call   *)
(* captures the baseline, d1 and d2 are the advances of the monotonic      *)
(* clock up to its two readings.                                           *)
(***************************************************************************)
GenerateUniqueTimestamp(wall, d1, d2) ==
  LET capture == baselineHrtimeNs = HrNull
      wallMs == IF capture THEN wall ELSE baselineWallClockMs
      baseHr == IF capture THEN hrtime + d1 ELSE baselineHrtimeNs
      currentHrtimeNs == IF capture THEN hrtime + d1 + d2 ELSE hrtime + d2
      elapsedNs == currentHrtimeNs - baseHr
      baselineNs == NumMul(wallMs, NsPerMs)
      currentNsNumber == NumAdd(baselineNs, elapsedNs)
  IN  /\ baselineWallClockMs' = wallMs
      /\ baselineHrtimeNs' = baseHr
      /\ hrtime' = currentHrtimeNs
      /\ lastTimestampNs' = NextTimestampNs(lastTimestampNs, currentNsNumber)
      /\ returned' = Append(returned, lastTimestampNs')

GenerateUniqueTimestampCall ==
  /\ Len(returned) < MaxTsCalls
  /\ \E wall \in DateNowReadings : \E d1 \in HrtimeSteps : \E d2 \in HrtimeSteps :
       /\ (baselineHrtimeNs # HrNull => wall = 0 /\ d1 = 0)
       /\ GenerateUniqueTimestamp(wall, d1, d2)

TsInit ==
  /\ lastTimestampNs = ZeroNs
  /\ baselineWallClockMs = 0
  /\ baselineHrtimeNs = HrNull
  /\ hrtime = 0
  /\ returned = <<>>

(***************************************************************************)
(* Messages and fields.  A string is modelled by its lengths: pad is the   *)
(* number of whitespace characters trim() removes, body the length of the  *)
(* rest, ellipsis whether the rest ends in "...".  A field key is          *)
(* modelled by the length of its trimmed text (0: an empty or whitespace   *)
(* key), a fields object by the function from its keys to their values.    *)
(***************************************************************************)
\* formatting.ts: MAX_MESSAGE_LENGTH
MAX_MESSAGE_LENGTH == 10000

\* validation.ts: MAX_MESSAGE_LENGTH, MAX_FIELDS_COUNT, MAX_FIELD_KEY_LENGTH
VALIDATION_MAX_MESSAGE_LENGTH == 10000

MAX_FIELDS_COUNT == 100

MAX_FIELD_KEY_LENGTH == 100

\* the length of "..."
EllipsisLength == 3

Message(pad, body) == [pad |-> pad, body |-> body, ellipsis |-> FALSE]

\* String.prototype.length
StringLength(message) == message.pad + message.body

\* String.prototype.trim()
Trim(message) == [message EXCEPT !.pad = 0]

\* trimmed.substring(0, end) + "...", for a trimmed string longer than end
SubstringWithEllipsis(trimmed, end) ==
  [pad |-> 0, body |-> Min(end, trimmed.body) + EllipsisLength, ellipsis |-> TRUE]

\* variant: the cut is made at MAX_MESSAGE_LENGTH, before the "..." is added
FormatMessageCutsAtMax(message) ==
  LET trimmed == Trim(message)
  IN  IF StringLength(trimmed) > MAX_MESSAGE_LENGTH
      THEN SubstringWithEllipsis(trimmed, MAX_MESSAGE_LENGTH)
      ELSE trimmed

\* formatMessage(message)
FormatMessage(message) ==
  LET trimmed == Trim(message)
  IN  IF StringLength(trimmed) > MAX_MESSAGE_LENGTH
      THEN SubstringWithEllipsis(trimmed, MAX_MESSAGE_LENGTH - EllipsisLength)
      ELSE trimmed

\* variant: a message longer than the maximum passes
ValidateLogMessageNoMaximum(message) ==
  LET trimmed == Trim(message)
  IN  StringLength(trimmed) # 0

\* validateLogMessage(message): TRUE when it returns, FALSE when it throws
ValidateLogMessage(message) ==
  LET trimmed == Trim(message)
  IN  /\ StringLength(trimmed) # 0
      /\ ~(StringLength(trimmed) > VALIDATION_MAX_MESSAGE_LENGTH)

\* validateLogFields(fields): TRUE when it returns, FALSE when it throws
ValidateLogFields(fields) ==
  LET keys == DOMAIN fields
  IN  /\ ~(Cardinality(keys) > MAX_FIELDS_COUNT)
      /\ \A key \in keys : key # 0 /\ ~(key > MAX_FIELD_KEY_LENGTH)

\* the empty object {}
EmptyFields == <<>>

\* ensureFields(fields): entries with an empty trimmed key are left out
EnsureFields(fields) ==
  [key \in {k \in DOMAIN fields : k # 0} |-> fields[key]]

\* mergeFields(base, additional)
MergeFields(base, additional) ==
  LET result == EnsureFields(base)
      additionalFormatted == EnsureFields(additional)
  IN  [key \in DOMAIN result \cup DOMAIN additionalFormatted |->
         IF key \in DOMAIN additionalFormatted THEN additionalFormatted[key]
         ELSE result[key]]

\* the messages explored: empty, whitespace only, of the maximum length
\* once trimmed, and one character longer
Messages ==
  {Message(0, 0), Message(2, 0), Message(1, MAX_MESSAGE_LENGTH),
   Message(0, MAX_MESSAGE_LENGTH + 1)}

\* the per-call fields explored: one key, an empty key, a key that is too
\* long, and one field too many
FieldsObjects ==
  {[key \in {2} |-> "call"], [key \in {0} |-> "call"],
   [key \in {MAX_FIELD_KEY_LENGTH + 1} |-> "call"],
   [key \in 1..(MAX_FIELDS_COUNT + 1) |-> "call"]}

\* the arguments explored for a log call: validateLogMessage throws before
\* the fields are looked at, so an invalid message comes with one fields
\* object only
LogInputs ==
  {in \in [message : Messages, fields : FieldsObjects] :
     ValidateLogMessage(in.message) \/ in.fields = [key \in {2} |-> "call"]}

(***************************************************************************)
(* LogBullLogger.log(level, message, fields) of a logger that has a        *)
(* sender.  valid is whether validateLogMessage and validateLogFields      *)
(* accept the arguments; wall, d1 and d2 are the clock readings as in      *)
(* generateUniqueTimestamp.  The entry gets the timestamp generated for    *)
(* it, is printed, and is passed to addLog.                                *)
(***************************************************************************)
LogLevels == {"DEBUG", "INFO", "WARNING", "ERROR", "CRITICAL"}

LOG_LEVEL_PRIORITY ==
  [level \in LogLevels |->
     CASE level = "DEBUG" -> 10
       [] level = "INFO" -> 20
       [] level = "WARNING" -> 30
       [] level = "ERROR" -> 40
       [] level = "CRITICAL" -> 50]

\* config.logLevel || "INFO"
DefaultLogLevel == "INFO"

\* number of accepted logger calls explored
MaxLoggerCalls == 3

\* the clock readings explored for logger calls: Date.now() at the first
\* call, and the advances of the monotonic clock between readings
LoggerDateNowReadings == {1}

LoggerHrtimeSteps == {0, 300}

\* the advances explored for a call: a stalled monotonic clock is explored
\* for the logger of the plain configuration (credentials, no logLevel) only
LoggerClockSteps ==
  IF config = [projectId |-> TRUE, host |-> TRUE, logLevel |-> "undefined"]
  THEN LoggerHrtimeSteps
  ELSE LoggerHrtimeSteps \ {0}

\* validateLogMessage(message) and validateLogFields(fields) both return
ValidLog(validMessage, validFields) == validMessage /\ validFields

\* variant: the level test is <= where the code has <
LoggerLogFiltersMinLevel(level, validMessage, validFields, wall, d1, d2) ==
  /\ logCall' = [level |-> level, validMessage |-> validMessage,
                 validFields |-> validFields]
  /\ UNCHANGED <<config, sender, minLevel>>
  /\ IF LOG_LEVEL_PRIORITY[level] <= LOG_LEVEL_PRIORITY[minLevel]
     THEN /\ lastOp' = [op |-> "log", result |-> "filtered"]
          /\ diagnostics' = <<>>
          /\ UNCHANGED <<logQueue, accepted, addLogCalls, tsVars, printed>>
     ELSE IF ~ValidLog(validMessage, validFields)
     THEN /\ lastOp' = [op |-> "log", result |-> "invalid"]
          /\ diagnostics' = <<Diag("invalidLog", -1, 0)>>
          /\ UNCHANGED <<logQueue, accepted, addLogCalls, tsVars, printed>>
     ELSE /\ GenerateUniqueTimestamp(wall, d1, d2)
          /\ printed' = Append(printed, Len(returned) + 1)
          /\ IF sender # "null"
             THEN /\ addLogCalls' = addLogCalls + 1
                  /\ AddLog(Len(returned) + 1)
             ELSE /\ lastOp' = [op |-> "log", result |-> "printed"]
                  /\ diagnostics' = <<>>
                  /\ UNCHANGED <<logQueue, accepted, addLogCalls>>

\* variant: the entry is passed to a sender without the test for one
LoggerLogAlwaysSends(level, validMessage, validFields, wall, d1, d2) ==
  /\ logCall' = [level |-> level, validMessage |-> validMessage,
                 validFields |-> validFields]
  /\ UNCHANGED <<config, sender, minLevel>>
  /\ IF LOG_LEVEL_PRIORITY[level] < LOG_LEVEL_PRIORITY[minLevel]
     THEN /\ lastOp' = [op |-> "log", result |-> "filtered"]
          /\ diagnostics' = <<>>
          /\ UNCHANGED <<logQueue, accepted, addLogCalls, tsVars, printed>>
     ELSE IF ~ValidLog(validMessage, validFields)
     THEN /\ lastOp' = [op |-> "log", result |-> "invalid"]
          /\ diagnostics' = <<Diag("invalidLog", -1, 0)>>
          /\ UNCHANGED <<logQueue, accepted, addLogCalls, tsVars, printed>>
     ELSE /\ GenerateUniqueTimestamp(wall, d1, d2)
          /\ printed' = Append(printed, Len(returned) + 1)
          /\ addLogCalls' = addLogCalls + 1
          /\ AddLog(Len(returned) + 1)

(***************************************************************************)
(* LogBullLogger.log(level, message, fields), also of a logger derived     *)
(* with withContext, which shares sender and minLevel.  The entry is the   *)
(* next one to be stamped: entry e carries the e-th timestamp generated.   *)
(***************************************************************************)
LoggerLog(level, validMessage, validFields, wall, d1, d2) ==
  /\ logCall' = [level |-> level, validMessage |-> validMessage,
                 validFields |-> validFields]
  /\ UNCHANGED <<config, sender, minLevel>>
  /\ IF LOG_LEVEL_PRIORITY[level] < LOG_LEVEL_PRIORITY[minLevel]
     THEN /\ lastOp' = [op |-> "log", result |-> "filtered"]
          /\ diagnostics' = <<>>
          /\ UNCHANGED <<logQueue, accepted, addLogCalls, tsVars, printed>>
     ELSE IF ~ValidLog(validMessage, validFields)
     THEN /\ lastOp' = [op |-> "log", result |-> "invalid"]
          /\ diagnostics' = <<Diag("invalidLog", -1, 0)>>
          /\ UNCHANGED <<logQueue, accepted, addLogCalls, tsVars, printed>>
     ELSE /\ GenerateUniqueTimestamp(wall, d1, d2)
          /\ printed' = Append(printed, Len(returned) + 1)
          /\ IF sender # "null"
             THEN /\ addLogCalls' = addLogCalls + 1
                  /\ AddLog(Len(returned) + 1)
             ELSE /\ lastOp' = [op |-> "log", result |-> "printed"]
                  /\ diagnostics' = <<>>
                  /\ UNCHANGED <<logQueue, accepted, addLogCalls>>

\* a call of log() told by its level and by what the two validations make
\* of its arguments; message and fields themselves are left out
LoggerLogCall ==
  /\ Len(returned) < MaxLoggerCalls
  /\ \E level \in LogLevels : \E validMessage \in BOOLEAN : \E validFields \in BOOLEAN :
     \E wall \in LoggerDateNowReadings : \E d1 \in LoggerHrtimeSteps : \E d2 \in LoggerClockSteps :
       /\ (IF baselineHrtimeNs = HrNull THEN d1 \in LoggerClockSteps ELSE d1 = 0)
       /\ LoggerLog(level, validMessage, validFields, wall, d1, d2)
  /\ response' = NoResponse
  /\ logInput' = NoInput
  /\ UNCHANGED <<intervalId, stopped, inFlightRequests, requests, shutdownPc, elapsed>>
  /\ UNCHANGED <<transportVars, loggers, entries>>

\* number of entries built by the calls explored with their arguments
MaxMethodCalls == 2

\* the levels of the calls explored with their arguments
MethodLevels == {"DEBUG", "INFO"}

\* the arguments explored for a call: the invalid ones are explored while
\* the constructed logger is the only logger
MethodInputs ==
  IF Len(loggers) = 1
  THEN LogInputs
  ELSE {in \in LogInputs : ValidateLogMessage(in.message) /\ ValidateLogFields(in.fields)}

(***************************************************************************)
(* LogBullLogger.log(level, message, fields) of the logger object self,    *)
(* with its arguments: the validations are computed from them, and the     *)
(* entry built carries the formatted message and the merged fields.        *)
(***************************************************************************)
LoggerLogOf(self, level, message, fields, wall, d1, d2) ==
  LET this == loggers[self]
  IN  /\ logCall' = [level |-> level, validMessage |-> ValidateLogMessage(message),
                     validFields |-> ValidateLogFields(fields)]
      /\ logInput' = [logger |-> self, message |-> message, fields |-> fields]
      /\ UNCHANGED <<config, sender, minLevel, loggers>>
      /\ IF LOG_LEVEL_PRIORITY[level] < LOG_LEVEL_PRIORITY[this.minLevel]
         THEN /\ lastOp' = [op |-> "log", result |-> "filtered"]
              /\ diagnostics' = <<>>
              /\ UNCHANGED <<logQueue, accepted, addLogCalls, tsVars, printed, entries>>
         ELSE IF ~ValidateLogMessage(message) \/ ~ValidateLogFields(fields)
         THEN /\ lastOp' = [op |-> "log", result |-> "invalid"]
              /\ diagnostics' = <<Diag("invalidLog", -1, 0)>>
              /\ UNCHANGED <<logQueue, accepted, addLogCalls, tsVars, printed, entries>>
         ELSE /\ GenerateUniqueTimestamp(wall, d1, d2)
              /\ entries' = Append(entries,
                               [message |-> FormatMessage(message),
                                fields |-> EnsureFields(MergeFields(this.context, fields))])
              /\ printed' = Append(printed, Len(returned) + 1)
              /\ IF this.sender # "null"
                 THEN /\ addLogCalls' = addLogCalls + 1
                      /\ AddLog(Len(returned) + 1)
                 ELSE /\ lastOp' = [op |-> "log", result |-> "printed"]
                      /\ diagnostics' = <<>>
                      /\ UNCHANGED <<logQueue, accepted, addLogCalls>>

\* debug(), info(), warning(), error() or critical() called with a message
\* and fields on one of the loggers: log(level, message, fields || {})
LoggerMethodCall ==
  /\ Len(returned) < MaxMethodCalls
  /\ \E self \in DOMAIN loggers : \E level \in MethodLevels : \E in \in MethodInputs :
     \E wall \in LoggerDateNowReadings : \E d \in LoggerHrtimeSteps \ {0} :
       LoggerLogOf(self, level, in.message, in.fields, wall, d, d)
  /\ response' = NoResponse
  /\ UNCHANGED <<intervalId, stopped, inFlightRequests, requests, shutdownPc, elapsed>>
  /\ UNCHANGED transportVars

\* number of logger objects explored
MaxLoggers == 3

\* the context objects explored; both hold key 1, one holds a whitespace key
ContextObjects ==
  {[key \in {0, 1, 2} |-> "a"], [key \in {1, 3} |-> "b"]}

\* variant: the new logger gets no sender
WithContextNoSender(self, context) ==
  LET this == loggers[self]
  IN  /\ loggers' = Append(loggers, [sender |-> "null", minLevel |-> this.minLevel,
                                     context |-> MergeFields(this.context, context)])
      /\ lastOp' = [op |-> "withContext", result |-> "created"]
      /\ diagnostics' = <<>>

\* withContext(context) of the logger object self
WithContext(self, context) ==
  LET this == loggers[self]
  IN  /\ loggers' = Append(loggers, [sender |-> this.sender, minLevel |-> this.minLevel,
                                     context |-> MergeFields(this.context, context)])
      /\ lastOp' = [op |-> "withContext", result |-> "created"]
      /\ diagnostics' = <<>>

WithContextCall ==
  /\ Len(loggers) < MaxLoggers
  /\ \E self \in DOMAIN loggers : \E context \in ContextObjects :
       /\ WithContext(self, context)
       /\ logInput' = [logger |-> self, fields |-> context]
  /\ response' = NoResponse
  /\ logCall' = NoCall
  /\ UNCHANGED <<logQueue, intervalId, stopped, inFlightRequests, requests,
                 shutdownPc, elapsed, addLogCalls, accepted>>
  /\ UNCHANGED <<tsVars, config, sender, minLevel, printed, transportVars, entries>>

\* flush() of the logger object self
LoggerFlushOf(self) ==
  /\ IF loggers[self].sender # "null"
     THEN Flush
     ELSE /\ lastOp' = [op |-> "flush", result |-> "noSender"]
          /\ diagnostics' = <<>>
          /\ UNCHANGED <<logQueue, inFlightRequests, requests>>
  /\ response' = NoResponse
  /\ logCall' = NoCall
  /\ logInput' = [logger |-> self]
  /\ UNCHANGED <<intervalId, stopped, shutdownPc, elapsed, addLogCalls, accepted, tsVars>>
  /\ UNCHANGED <<config, sender, minLevel, printed, transportVars, loggers, entries>>

\* shutdown() of the logger object self, up to its first await (or to its
\* return)
LoggerShutdownOf(self) ==
  /\ IF loggers[self].sender # "null"
     THEN Shutdown
     ELSE /\ lastOp' = [op |-> "shutdown", result |-> "noSender"]
          /\ diagnostics' = <<>>
          /\ UNCHANGED <<logQueue, intervalId, stopped, inFlightRequests, requests,
                         shutdownPc, elapsed>>
  /\ response' = NoResponse
  /\ logCall' = NoCall
  /\ logInput' = [logger |-> self]
  /\ UNCHANGED <<addLogCalls, accepted, tsVars>>
  /\ UNCHANGED <<config, sender, minLevel, printed, transportVars, loggers, entries>>

\* LogBullLogger.flush()
LoggerFlushCall ==
  /\ IF sender # "null"
     THEN Flush
     ELSE /\ lastOp' = [op |-> "flush", result |-> "noSender"]
          /\ diagnostics' = <<>>
          /\ UNCHANGED <<logQueue, inFlightRequests, requests>>
  /\ response' = NoResponse
  /\ NotALogCall
  /\ UNCHANGED <<intervalId, stopped, shutdownPc, elapsed, addLogCalls, accepted, tsVars>>

\* LogBullLogger.shutdown(), up to its first await (or to its return)
LoggerShutdownCall ==
  /\ IF sender # "null"
     THEN Shutdown
     ELSE /\ lastOp' = [op |-> "shutdown", result |-> "noSender"]
          /\ diagnostics' = <<>>
          /\ UNCHANGED <<logQueue, intervalId, stopped, inFlightRequests, requests,
                         shutdownPc, elapsed>>
  /\ response' = NoResponse
  /\ NotALogCall
  /\ UNCHANGED <<addLogCalls, accepted, tsVars>>

(***************************************************************************)
(* LogBullTransport (Winston) and LogBullPinoTransport.  An info or chunk  *)
(* is told by whether the entry can be built from it (wellFormed: its      *)
(* level is a string and its message a string, the chunk parses), by its   *)
(* message and by its other fields.                                        *)
(***************************************************************************)
\* number of LogBullTransport.log() calls explored
MaxTransportCalls == 4

\* the infos and chunks explored: one the entry cannot be built from, and
\* one whose message is one character longer than the maximum and whose
\* fields hold a whitespace key
TransportInfos ==
  {[wellFormed |-> FALSE, message |-> Message(0, 1), fields |-> EmptyFields],
   [wellFormed |-> TRUE, message |-> Message(1, MAX_MESSAGE_LENGTH + 1),
    fields |-> [key \in {0, 2} |-> "info"]]}

\* the LogEntry a transport builds: its message and its fields
TransportEntry(info) ==
  [message |-> FormatMessage(info.message), fields |-> EnsureFields(info.fields)]

\* the try block of a transport: the entry is built, stamped and passed to
\* addLog, or the error is caught and reported
TransportTry(info, catchOp) ==
  IF ~info.wellFormed
  THEN /\ lastOp' = [op |-> catchOp, result |-> "caught"]
       /\ diagnostics' = <<Diag("transportError", -1, 0)>>
       /\ logInput' = NoInput
       /\ UNCHANGED <<logQueue, accepted, addLogCalls, tsVars, entries>>
  ELSE /\ logInput' = [logger |-> 0, message |-> info.message, fields |-> info.fields]
       /\ \E wall \in LoggerDateNowReadings : \E d \in LoggerHrtimeSteps \ {0} :
            GenerateUniqueTimestamp(wall, d, d)
       /\ entries' = Append(entries, TransportEntry(info))
       /\ addLogCalls' = addLogCalls + 1
       /\ AddLog(addLogCalls + 1)

\* what a run of a transport leaves alone
TransportFrame ==
  /\ response' = NoResponse
  /\ logCall' = NoCall
  /\ UNCHANGED <<intervalId, stopped, inFlightRequests, requests, shutdownPc, elapsed>>
  /\ UNCHANGED <<config, sender, minLevel, printed, owner, loggers>>

\* variant: log() builds and enqueues the entry itself, and defers only
\* the callback
TransportLogEnqueuesNow ==
  /\ Len(callbacks) < MaxTransportCalls
  /\ \E info \in TransportInfos :
       /\ immediates' = Append(immediates, [call |-> Len(callbacks) + 1,
                                            info |-> [info EXCEPT !.wellFormed = FALSE]])
       /\ TransportTry(info, "transportLog")
  /\ callbacks' = Append(callbacks, 0)
  /\ TransportFrame

\* LogBullTransport.log(info, callback): setImmediate(...) and return
TransportLog ==
  /\ Len(callbacks) < MaxTransportCalls
  /\ \E info \in TransportInfos :
       immediates' = Append(immediates, [call |-> Len(callbacks) + 1, info |-> info])
  /\ callbacks' = Append(callbacks, 0)
  /\ lastOp' = [op |-> "transportLog", result |-> "deferred"]
  /\ diagnostics' = <<>>
  /\ logInput' = NoInput
  /\ UNCHANGED <<logQueue, accepted, addLogCalls, tsVars, entries>>
  /\ TransportFrame

\* variant: callback() is the last statement of the try block
TransportImmediateCallbackInTry ==
  /\ immediates # <<>>
  /\ LET head == Head(immediates)
     IN  /\ immediates' = Tail(immediates)
         /\ TransportTry(head.info, "transportImmediate")
         /\ callbacks' = IF head.info.wellFormed
                         THEN [callbacks EXCEPT ![head.call] = @ + 1]
                         ELSE callbacks
  /\ TransportFrame

\* the callback log() passed to setImmediate; the event loop runs them in
\* the order they were scheduled
TransportImmediate ==
  /\ immediates # <<>>
  /\ LET head == Head(immediates)
     IN  /\ immediates' = Tail(immediates)
         /\ TransportTry(head.info, "transportImmediate")
         /\ callbacks' = [callbacks EXCEPT ![head.call] = @ + 1]
  /\ TransportFrame

\* the chunks explored: those infos, and one whose message has the maximum
\* length once trimmed
PinoChunks ==
  TransportInfos \cup
    {[wellFormed |-> TRUE, message |-> Message(1, MAX_MESSAGE_LENGTH),
      fields |-> [key \in {0, 2} |-> "info"]]}

\* LogBullPinoTransport.transform(chunk)
PinoTransform ==
  /\ addLogCalls < MaxMethodCalls
  /\ \E chunk \in PinoChunks : TransportTry(chunk, "pinoTransform")
  /\ UNCHANGED <<immediates, callbacks>>
  /\ TransportFrame

(***************************************************************************)
(* new Sender(config)                                                      *)
(***************************************************************************)
SenderInit ==
  /\ logQueue = <<>>
  /\ intervalId = "active"
  /\ stopped = FALSE
  /\ inFlightRequests = 0
  /\ requests = <<>>
  /\ shutdownPc = "idle"
  /\ elapsed = 0
  /\ addLogCalls = 0
  /\ accepted = {}
  /\ lastOp = [op |-> "new", result |-> "constructed"]
  /\ diagnostics = <<>>
  /\ response = NoResponse

\* a logger without a sender: no Sender is constructed, no timer is started
NoSenderInit ==
  /\ logQueue = <<>>
  /\ intervalId = "null"
  /\ stopped = FALSE
  /\ inFlightRequests = 0
  /\ requests = <<>>
  /\ shutdownPc = "idle"
  /\ elapsed = 0
  /\ addLogCalls = 0
  /\ accepted = {}
  /\ lastOp = [op |-> "new", result |-> "constructed"]
  /\ diagnostics = <<>>
  /\ response = NoResponse

\* the configurations explored: projectId and host given or not, logLevel
\* given or left out
Configs ==
  [projectId : BOOLEAN, host : BOOLEAN, logLevel : LogLevels \cup {"undefined"}]

\* projectId and host given, logLevel left out
Credentials == [projectId |-> TRUE, host |-> TRUE, logLevel |-> "undefined"]

(***************************************************************************)
(* new LogBullLogger(cfg), for a cfg that passes validation                *)
(***************************************************************************)
LoggerConstructor(cfg) ==
  /\ config = cfg
  /\ minLevel = (IF cfg.logLevel = "undefined" THEN DefaultLogLevel ELSE cfg.logLevel)
  /\ printed = <<>>
  /\ logCall = NoCall
  /\ IF ~cfg.projectId \/ ~cfg.host
     THEN sender = "null" /\ NoSenderInit
     ELSE sender = "sender" /\ SenderInit
  /\ owner = "LogBullLogger"
  /\ immediates = <<>>
  /\ callbacks = <<>>
  /\ loggers = <<[sender |-> sender, minLevel |-> minLevel, context |-> EmptyFields]>>
  /\ entries = <<>>
  /\ logInput = NoInput

Init == LoggerConstructor(Credentials) /\ TsInit

\* one Sender, driven by its callers, its timer and its requests
Next ==
  \/ AddLogCall /\ UNCHANGED tsVars /\ NotALogCall
  \/ FlushCall /\ UNCHANGED tsVars /\ NotALogCall
  \/ TimerTick /\ UNCHANGED tsVars /\ NotALogCall
  \/ ShutdownCall /\ UNCHANGED tsVars /\ NotALogCall
  \/ ShutdownWake /\ UNCHANGED tsVars /\ NotALogCall
  \/ RequestSettles /\ UNCHANGED tsVars /\ NotALogCall

Spec == Init /\ [][Next]_vars

\* the same Sender under the event loop's guarantee that a due setTimeout
\* callback runs: the wait loop of shutdown() is resumed.  Nothing makes a
\* request settle.
FairSpec == Spec /\ WF_vars(ShutdownWake /\ UNCHANGED tsVars /\ NotALogCall)

\* the same Sender under the event loop's guarantee that its interval
\* callback keeps running while the interval is active
TimerFairSpec == Spec /\ WF_vars(TimerTick /\ UNCHANGED tsVars /\ NotALogCall)

\* one Sender with the stages of a request told apart: the response
\* arrives, then the body.  The event loop runs the timer callbacks that are
\* due (the abort timer of a request, the wait loop of shutdown()); nothing
\* makes a server answer or finish a body.
TimeoutNext ==
  \/ AddLogCall /\ UNCHANGED tsVars /\ NotALogCall
  \/ FlushCall /\ UNCHANGED tsVars /\ NotALogCall
  \/ TimerTick /\ UNCHANGED tsVars /\ NotALogCall
  \/ ShutdownCall /\ UNCHANGED tsVars /\ NotALogCall
  \/ ShutdownWake /\ UNCHANGED tsVars /\ NotALogCall
  \/ RequestSettles /\ UNCHANGED tsVars /\ NotALogCall
  \/ ResponseArrives /\ UNCHANGED tsVars /\ NotALogCall
  \/ RequestTimeout /\ UNCHANGED tsVars /\ NotALogCall

TimeoutSpec ==
  /\ Init
  /\ [][TimeoutNext]_vars
  /\ WF_vars(RequestTimeout /\ UNCHANGED tsVars /\ NotALogCall)
  /\ WF_vars(ShutdownWake /\ UNCHANGED tsVars /\ NotALogCall)

\* a LogBullLogger and its Sender: every entry comes from a log call, which
\* stamps it
LoggerNext ==
  \/ LoggerLogCall
  \/ LoggerFlushCall
  \/ TimerTick /\ UNCHANGED tsVars /\ NotALogCall
  \/ LoggerShutdownCall
  \/ ShutdownWake /\ UNCHANGED tsVars /\ NotALogCall
  \/ RequestSettles /\ UNCHANGED tsVars /\ NotALogCall

LoggerSpec == Init /\ [][LoggerNext]_vars

\* a LogBullLogger constructed from any of the configurations, with its
\* Sender if it has one
ConfigInit == (\E cfg \in Configs : LoggerConstructor(cfg)) /\ TsInit

ConfigSpec == ConfigInit /\ [][LoggerNext]_vars

\* the timestamp generator, driven by its callers and the clocks
TsNext == GenerateUniqueTimestampCall /\ UNCHANGED senderVars /\ NotALogCall

TsSpec == Init /\ [][TsNext]_vars

\* a LogBullLogger and the loggers derived from it with withContext: the
\* calls made on them, with their arguments, the timer of their Sender and
\* the wait loop of shutdown().  The requests stay in flight; how they
\* settle is explored by the specifications above.
ContextNext ==
  \/ LoggerMethodCall
  \/ WithContextCall
  \/ \E self \in DOMAIN loggers : LoggerFlushOf(self)
  \/ \E self \in DOMAIN loggers : LoggerShutdownOf(self)
  \/ TimerTick /\ UNCHANGED tsVars /\ NotALogCall
  \/ ShutdownWake /\ UNCHANGED tsVars /\ NotALogCall

ContextSpec == Init /\ [][ContextNext]_vars

(***************************************************************************)
(* new LogBullTransport(config) and new LogBullPinoTransport(config), for  *)
(* a config that passes validation: each constructs its Sender.  The       *)
(* transports have no minimum level and no context.                        *)
(***************************************************************************)
TransportConstructor(class) ==
  /\ owner = class
  /\ config = Credentials
  /\ sender = "sender"
  /\ SenderInit
  /\ minLevel = DefaultLogLevel
  /\ printed = <<>>
  /\ logCall = NoCall
  /\ immediates = <<>>
  /\ callbacks = <<>>
  /\ loggers = <<>>
  /\ entries = <<>>
  /\ logInput = NoInput

TransportInit == TransportConstructor("LogBullTransport") /\ TsInit

\* a LogBullTransport and its Sender: log() and the callbacks it defers,
\* flush(), close() and shutdown() (both run Sender.shutdown()), the timer
\* and the requests
TransportNext ==
  \/ TransportLog
  \/ TransportImmediate
  \/ FlushCall /\ UNCHANGED tsVars /\ NotALogCall
  \/ TimerTick /\ UNCHANGED tsVars /\ NotALogCall
  \/ ShutdownCall /\ UNCHANGED tsVars /\ NotALogCall
  \/ ShutdownWake /\ UNCHANGED tsVars /\ NotALogCall
  \/ RequestSettles /\ UNCHANGED tsVars /\ NotALogCall

TransportSpec == TransportInit /\ [][TransportNext]_vars

\* the same transport under the event loop's guarantee that a callback
\* given to setImmediate runs
TransportFairSpec == TransportSpec /\ WF_vars(TransportImmediate)

\* one of them is constructed with credentials
EntryInit ==
  /\ \/ LoggerConstructor(Credentials)
     \/ TransportConstructor("LogBullTransport")
     \/ TransportConstructor("LogBullPinoTransport")
  /\ TsInit

\* a Sender and the object that holds it: the calls that build entries,
\* with their arguments, and the runs of the Sender (flush() and shutdown()
\* of the three classes forward to it)
EntryNext ==
  \/ owner = "LogBullLogger" /\ LoggerMethodCall
  \/ owner = "LogBullTransport" /\ TransportLog
  \/ owner = "LogBullTransport" /\ TransportImmediate
  \/ owner = "LogBullPinoTransport" /\ PinoTransform
  \/ FlushCall /\ UNCHANGED tsVars /\ NotALogCall
  \/ TimerTick /\ UNCHANGED tsVars /\ NotALogCall
  \/ ShutdownCall /\ UNCHANGED tsVars /\ NotALogCall
  \/ ShutdownWake /\ UNCHANGED tsVars /\ NotALogCall
  \/ RequestSettles /\ UNCHANGED tsVars /\ NotALogCall

EntrySpec == EntryInit /\ [][EntryNext]_vars

TypeOK ==
  /\ logQueue \in Seq(1..MaxLogs)
  /\ intervalId \in {"active", "null"}
  /\ stopped \in BOOLEAN
  /\ inFlightRequests \in Nat
  /\ shutdownPc \in {"idle", "waiting", "resolved"}
  /\ elapsed \in 0..maxWaitTime
  /\ addLogCalls \in 0..MaxLogs
  /\ accepted \subseteq 1..MaxLogs

(***************************************************************************)
(* Properties of the Sender and of the timestamp generator.                *)
(***************************************************************************)

\* the step is a run of addLog(entry)
IsAddLogStep == addLogCalls' = addLogCalls + 1

\* the step starts a dispatch: sendHTTPRequest(logs) was called
IsDispatchStep == Len(requests') = Len(requests) + 1

\* where entry e is held: position i of the queue (0, i) or of the batch of
\* request r (r, i)
Places(e) ==
  {<<0, i>> : i \in {k \in DOMAIN logQueue : logQueue[k] = e}}
    \cup
  UNION {{<<r, i>> : i \in {k \in DOMAIN requests[r].logs : requests[r].logs[k] = e}}
           : r \in DOMAIN requests}

\* C1: in every reachable state of a Sender the queue length is at most
\* QUEUE_CAPACITY.
C1_QueueWithinCapacity == Len(logQueue) <= QUEUE_CAPACITY

\* C1 witness: the queue is full and an addLog call has just been refused.
C1_Witness ==
  /\ Len(logQueue) = QUEUE_CAPACITY
  /\ lastOp = [op |-> "addLog", result |-> "droppedFull"]

\* C2: an addLog call on a queue of length >= QUEUE_CAPACITY returns
\* normally and drops the incoming entry: the queue (contents and order), the
\* in-flight counter and the stopped flag are unchanged; hence after
\* QUEUE_CAPACITY + 1 calls on a running sender with no batch taken, the queue
\* holds exactly the first QUEUE_CAPACITY entries in call order.
C2_FullQueueDropsNewest ==
  /\ [][(IsAddLogStep /\ Len(logQueue) >= QUEUE_CAPACITY)
          => /\ logQueue' = logQueue
             /\ inFlightRequests' = inFlightRequests
             /\ stopped' = stopped
             /\ lastOp'.op = "addLog"
             /\ addLogCalls + 1 \notin accepted']_vars
  /\ [](/\ addLogCalls = QUEUE_CAPACITY + 1
        /\ requests = <<>>
        /\ ~stopped
        => logQueue = [i \in 1..QUEUE_CAPACITY |-> i])

\* C2 witness: QUEUE_CAPACITY + 1 entries were offered to a running sender, no
\* batch was taken, and the last call was refused because the queue was full.
C2_Witness ==
  /\ addLogCalls = QUEUE_CAPACITY + 1
  /\ requests = <<>>
  /\ ~stopped
  /\ lastOp = [op |-> "addLog", result |-> "droppedFull"]

\* C3: no entry is held twice (in two batches, twice in one, or in the queue
\* and in a batch), and every entry addLog accepted is held exactly once, in
\* the queue or in one batch handed to the dispatcher.
C3_AtMostOnceNoLoss ==
  \A e \in 1..MaxLogs :
    Cardinality(Places(e)) = IF e \in accepted THEN 1 ELSE 0

\* C3 witness: two batches were taken, an entry is still queued, and an entry
\* was refused.
C3_Witness ==
  /\ Len(requests) >= 2
  /\ Len(logQueue) >= 1
  /\ accepted # 1..addLogCalls

\* C4: every batch handed to the dispatcher holds at least one and at most
\* BATCH_SIZE entries.
C4_BatchSizeBounds ==
  \A r \in DOMAIN requests :
    /\ Len(requests[r].logs) >= 1
    /\ Len(requests[r].logs) <= BATCH_SIZE

\* C4 witness: a trigger found more than BATCH_SIZE entries queued and took a
\* full batch, and a trigger on the emptied queue started nothing.
C4_Witness ==
  /\ \E r \in DOMAIN requests : Len(requests[r].logs) = BATCH_SIZE
  /\ Len(logQueue) = 0
  /\ lastOp.result = "empty"
  /\ addLogCalls > BATCH_SIZE

\* C5: a batch take is FIFO: the batch is the first min(queue length,
\* BATCH_SIZE) entries of the queue in order, and the queue afterwards is the
\* rest in order.
C5_BatchTakeIsFifo ==
  [][IsDispatchStep =>
       LET batch == requests'[Len(requests')].logs
       IN  /\ Len(batch) = Min(Len(logQueue), BATCH_SIZE)
           /\ \A i \in 1..Len(batch) : batch[i] = logQueue[i]
           /\ Len(logQueue') = Len(logQueue) - Len(batch)
           /\ \A i \in 1..Len(logQueue') : logQueue'[i] = logQueue[Len(batch) + i]]_vars

\* C5 witness: a batch of BATCH_SIZE entries was taken from a longer queue,
\* which keeps an entry.
C5_Witness ==
  /\ lastOp.result = "sent"
  /\ Len(requests[Len(requests)].logs) = BATCH_SIZE
  /\ Len(logQueue) >= 1

\* C6: each nanosecond value generateUniqueTimestamp returns is strictly
\* greater than every value returned by an earlier call.
C6_StrictlyIncreasing ==
  \A i \in DOMAIN returned : \A j \in DOMAIN returned :
    i < j => returned[i] < returned[j]

\* C7: a shutdown() call made after the first shutdown() has resolved changes
\* neither the queue, the in-flight counter, the stopped flag nor the timer,
\* and starts no dispatch.
C7_ShutdownIdempotent ==
  [][(shutdownPc = "resolved" /\ lastOp'.op = "shutdown")
       => /\ UNCHANGED <<logQueue, inFlightRequests, stopped, intervalId, requests>>
          /\ shutdownPc' = "resolved"]_vars

\* C7 witness: shutdown() was called again after it had resolved, with an
\* entry still queued.
C7_Witness ==
  /\ shutdownPc = "resolved"
  /\ lastOp = [op |-> "shutdown", result |-> "alreadyStopped"]
  /\ Len(logQueue) >= 1

\* C8: once the sender is stopped every addLog call is dropped: the queue is
\* unchanged, the call returns normally, and no dispatch is started.
C8_AddLogDroppedWhenStopped ==
  [][(stopped /\ IsAddLogStep)
       => /\ UNCHANGED <<logQueue, inFlightRequests, requests, accepted>>
          /\ lastOp' = [op |-> "addLog", result |-> "droppedStopped"]]_vars

\* C8 witness: addLog was called on a stopped sender whose shutdown() has
\* resolved and whose queue has room.
C8_Witness ==
  /\ stopped
  /\ shutdownPc = "resolved"
  /\ lastOp = [op |-> "addLog", result |-> "droppedStopped"]
  /\ Len(logQueue) < QUEUE_CAPACITY

\* C9: when shutdown() resolves the queue is empty: every entry queued at the
\* call has been handed to the dispatcher.
C9_ShutdownDrainsQueue ==
  shutdownPc = "resolved" => Len(logQueue) = 0

\* C10: when flush() returns the queue is empty: every entry queued at the
\* call has been handed to the dispatcher.
C10_FlushSendsAll ==
  lastOp.op = "flush" => Len(logQueue) = 0

\* the step is a run of sendHTTPRequest's continuation
IsSettleStep == lastOp'.op = "settle" /\ requests' # requests

\* the lifecycle of the sender
Phase ==
  IF ~stopped THEN "Running"
  ELSE IF shutdownPc = "waiting" THEN "Draining"
  ELSE "Stopped"

PhaseRank(phase) ==
  CASE phase = "Running" -> 0
    [] phase = "Draining" -> 1
    [] phase = "Stopped" -> 2

\* C11: shutdown() always resolves, also when requests never settle: once
\* the sender is stopped, the shutdown() call that stopped it eventually
\* resolves.
C11_ShutdownResolves == stopped ~> (shutdownPc = "resolved")

\* C11 witness: shutdown() resolved at the ceiling with a request still in
\* flight.
C11_Witness ==
  /\ shutdownPc = "resolved"
  /\ elapsed = maxWaitTime
  /\ inFlightRequests > 0
  /\ lastOp = [op |-> "shutdownWake", result |-> "resolved"]

\* C12: at the moment the first shutdown() resolves, the in-flight counter is
\* zero or the wait ceiling has elapsed.
C12_NoEarlyResolve ==
  [][(shutdownPc # "resolved" /\ shutdownPc' = "resolved")
       => (inFlightRequests' = 0 \/ elapsed' >= maxWaitTime)]_vars

\* C12 witness: shutdown() waited, and resolved before the ceiling once the
\* drain batch and an earlier dispatch had both settled.
C12_Witness ==
  /\ lastOp = [op |-> "shutdownWake", result |-> "resolved"]
  /\ inFlightRequests = 0
  /\ elapsed < maxWaitTime
  /\ Len(requests) >= 2

\* C13: the lifecycle is one-way, Running, then Draining, then Stopped: the
\* stopped flag is never cleared and the timer is never restarted.
C13_LifecycleOneWay ==
  [][/\ PhaseRank(Phase') >= PhaseRank(Phase)
     /\ (stopped => stopped')
     /\ (intervalId = "null" => intervalId' = "null")]_vars

\* C13 witness: the sender is Stopped and has since seen addLog, flush and a
\* request settling.
C13_Witness ==
  /\ Phase = "Stopped"
  /\ lastOp.op = "settle"
  /\ addLogCalls > Cardinality(accepted) + 1
  /\ \E r \in DOMAIN requests : requests[r].status = "inflight"

\* C14: once shutdown() has resolved, flush() starts no dispatch and leaves
\* the queue and the in-flight counter unchanged.
C14_FlushNoopWhenStopped ==
  [][(shutdownPc = "resolved" /\ lastOp'.op = "flush")
       => UNCHANGED <<logQueue, inFlightRequests, requests>>]_vars

\* C15: the in-flight counter equals the number of dispatches started and not
\* yet settled; it goes up by one when a dispatch starts and down by one when
\* one settles, whatever the path, and is never negative.
C15_InFlightCounts ==
  /\ [](inFlightRequests >= 0)
  /\ [](inFlightRequests =
          Cardinality({r \in DOMAIN requests : requests[r].status = "inflight"}))
  /\ [][IsDispatchStep => inFlightRequests' = inFlightRequests + 1]_vars
  /\ [][IsSettleStep => inFlightRequests' = inFlightRequests - 1]_vars

\* C15 witness: of three dispatches, one is in flight and the last one to
\* settle left through the parse-error return.
C15_Witness ==
  /\ lastOp = [op |-> "settle", result |-> "parseError"]
  /\ inFlightRequests = 1
  /\ Len(requests) >= 3

\* C16: a settling dispatch changes neither the queue nor any batch, whatever
\* its outcome, and the entries of a settled batch are in no other request
\* and not in the queue.
C16_NoRetryNoRequeue ==
  /\ [][IsSettleStep
          => /\ logQueue' = logQueue
             /\ Len(requests') = Len(requests)
             /\ \A r \in DOMAIN requests : requests'[r].logs = requests[r].logs]_vars
  /\ [](\A r \in DOMAIN requests :
          requests[r].status # "inflight"
            => \A k \in DOMAIN requests[r].logs :
                 /\ \A q \in DOMAIN logQueue : logQueue[q] # requests[r].logs[k]
                 /\ \A r2 \in DOMAIN requests : \A k2 \in DOMAIN requests[r2].logs :
                      r2 # r => requests[r2].logs[k2] # requests[r].logs[k])

\* C16 witness: a batch failed with a bad status while entries were queued,
\* and a later trigger has taken another batch.
C16_Witness ==
  /\ \E r \in DOMAIN requests : requests[r].status = "settled" /\ r < Len(requests)
  /\ lastOp = [op |-> "settle", result |-> "badStatus"]
  /\ Len(logQueue) >= 1

\* C17: a delivery failure never reaches the caller: the promise of every
\* dispatch is pending or fulfilled, never rejected, and a failed dispatch
\* only writes a diagnostic and decrements the counter; queue, stopped flag,
\* timer and accepted entries are untouched.
C17_FailuresSwallowed ==
  /\ [](\A r \in DOMAIN requests : requests[r].status \in {"inflight", "settled"})
  /\ [][(IsSettleStep /\ lastOp'.result \in {"badStatus", "networkError"})
          => /\ UNCHANGED <<logQueue, stopped, intervalId, accepted, addLogCalls>>
             /\ inFlightRequests' = inFlightRequests - 1
             /\ Len(diagnostics') = 1]_vars

\* C17 witness: a request failed on the network while an entry was queued.
C17_Witness ==
  /\ lastOp = [op |-> "settle", result |-> "networkError"]
  /\ diagnostics = <<Diag("requestFailed", -1, 0)>>
  /\ Len(logQueue) >= 1

\* C18: a timer tick or a flush() on a non-empty queue takes one batch and
\* starts one dispatch, which is still in flight when the trigger returns; on
\* an empty queue it changes neither the queue, the requests nor the counter.
C18_OneBatchPerTrigger ==
  [][(lastOp'.op \in {"timer", "flush"})
       => IF Len(logQueue) > 0
          THEN /\ Len(requests') = Len(requests) + 1
               /\ requests'[Len(requests')].status = "inflight"
               /\ inFlightRequests' = inFlightRequests + 1
               /\ Len(logQueue') = Len(logQueue) - Len(requests'[Len(requests')].logs)
               /\ \A r \in DOMAIN requests : requests'[r] = requests[r]
          ELSE UNCHANGED <<logQueue, requests, inFlightRequests>>]_vars

\* C18 witness: a timer tick took a batch from a queue longer than one batch
\* while an earlier dispatch was still in flight.
C18_Witness ==
  /\ lastOp = [op |-> "timer", result |-> "sent"]
  /\ inFlightRequests >= 2
  /\ Len(logQueue) >= 1

\* the timestamp of entry e under LoggerSpec, where the e-th timestamp
\* generated is the one given to the e-th entry
TimestampOf(e) == returned[e]

\* C19: the queue of a Sender is at all times strictly increasing in
\* timestamp from head to tail, and so is every batch.
C19_QueueTimestampsIncrease ==
  /\ \A i \in DOMAIN logQueue : \A j \in DOMAIN logQueue :
       i < j => TimestampOf(logQueue[i]) < TimestampOf(logQueue[j])
  /\ \A r \in DOMAIN requests :
       \A i \in DOMAIN requests[r].logs : \A j \in DOMAIN requests[r].logs :
         i < j => TimestampOf(requests[r].logs[i]) < TimestampOf(requests[r].logs[j])

\* the last run settled a request whose parsed response reports rejected > 0
RejectionHandled == lastOp = [op |-> "settle", result |-> "rejected"]

\* the index of an error lies within the batch
InBatch(index, batch) == index >= 0 /\ index < Len(batch)

\* C20 as stated: when a response reports rejected > 0, a per-entry
\* diagnostic is written for each rejection of its errors list.
C20_EveryRejectionReported ==
  RejectionHandled =>
    \A k \in DOMAIN response.errors :
      \E n \in DOMAIN diagnostics :
        /\ diagnostics[n].kind = "rejectedEntry"
        /\ diagnostics[n].index = response.errors[k]

\* C20 as amended: when a response reports rejected > 0, a summary is written
\* and then one per-entry diagnostic for each rejection of the errors list
\* whose index lies within the batch (0 <= index < batch length), naming the
\* entry of the batch at that index; an error whose index lies outside the
\* batch gets none; nothing is resubmitted.
C20_InBatchRejectionsReported ==
  /\ [](RejectionHandled =>
          LET batch == requests[response.request].logs
              errors == response.errors
          IN  /\ diagnostics[1].kind = "rejectedSummary"
              /\ \A k \in DOMAIN errors :
                   InBatch(errors[k], batch)
                     => \E n \in DOMAIN diagnostics :
                          diagnostics[n] =
                            Diag("rejectedEntry", errors[k], batch[errors[k] + 1])
              /\ \A n \in DOMAIN diagnostics :
                   diagnostics[n].kind = "rejectedEntry"
                     => /\ InBatch(diagnostics[n].index, batch)
                        /\ \E k \in DOMAIN errors : errors[k] = diagnostics[n].index
                        /\ diagnostics[n].entry = batch[diagnostics[n].index + 1]
              /\ Cardinality({n \in DOMAIN diagnostics :
                                diagnostics[n].kind = "rejectedEntry"})
                   = Cardinality({k \in DOMAIN errors : InBatch(errors[k], batch)}))
  /\ [][(IsSettleStep /\ lastOp'.result = "rejected")
          => /\ logQueue' = logQueue
             /\ Len(requests') = Len(requests)]_vars

\* C20 witness: a full batch was answered with rejected > 0 and two errors,
\* one for its first entry and one with an index past its end.
C20_Witness ==
  /\ RejectionHandled
  /\ response.errors = <<0, BATCH_SIZE>>
  /\ Len(requests[response.request].logs) = BATCH_SIZE
  /\ Len(diagnostics) = 3

\* C21: once the status check passes, a response body that is not a
\* well-formed delivery response (unparseable text, or JSON that is not an
\* object) is ignored silently: the run that settles the dispatch writes no
\* diagnostic and decrements the in-flight counter.
C21_MalformedBodyIgnored ==
  [][(IsSettleStep /\ lastOp'.result \in {"parseError", "nullBody"})
       => /\ diagnostics' = <<>>
          /\ inFlightRequests' = inFlightRequests - 1]_vars

\* the step is a run of LogBullLogger.log
IsLogStep == logCall' # NoCall

\* the level of a log call is below the logger's minimum level
BelowMinLevel(call) == LOG_LEVEL_PRIORITY[call.level] < LOG_LEVEL_PRIORITY[minLevel]

\* the call produces one entry: one timestamp is consumed, the entry is
\* printed once, and a logger with a sender passes it to addLog once
ProducesOneEntry ==
  /\ Len(returned') = Len(returned) + 1
  /\ printed' = Append(printed, Len(returned'))
  /\ (sender # "null" => addLogCalls' = addLogCalls + 1)
  /\ (sender # "null" /\ ~stopped /\ Len(logQueue) < QUEUE_CAPACITY
        => logQueue' = Append(logQueue, Len(returned')))

\* the call stops at the level test: nothing is printed, no timestamp is
\* consumed, nothing is queued
StopsAtLevelTest ==
  /\ diagnostics' = <<>>
  /\ UNCHANGED <<printed, returned, lastTimestampNs, logQueue, addLogCalls,
                 accepted, requests>>

\* C22 as stated: a log call below the minimum level prints nothing,
\* consumes no timestamp and enqueues nothing; a call at or above it with a
\* valid message produces exactly one entry; the minimum is INFO when the
\* configuration names no level.
C22_LevelFilterValidMessage ==
  /\ [](config.logLevel = "undefined" => minLevel = "INFO")
  /\ [][(IsLogStep /\ BelowMinLevel(logCall')) => StopsAtLevelTest]_vars
  /\ [][(IsLogStep /\ ~BelowMinLevel(logCall') /\ logCall'.validMessage)
          => ProducesOneEntry]_vars

\* C22 as amended: a log call below the minimum level prints nothing,
\* consumes no timestamp and enqueues nothing; a call at or above it with a
\* valid message and valid fields produces exactly one entry, and one whose
\* message or fields are invalid produces no entry and writes one diagnostic;
\* the minimum is INFO when the configuration names no level, the named level
\* otherwise.
C22_LevelFilterValidLog ==
  /\ [](minLevel = IF config.logLevel = "undefined" THEN "INFO" ELSE config.logLevel)
  /\ [][(IsLogStep /\ BelowMinLevel(logCall')) => StopsAtLevelTest]_vars
  /\ [][(IsLogStep /\ ~BelowMinLevel(logCall')
           /\ logCall'.validMessage /\ logCall'.validFields)
          => ProducesOneEntry]_vars
  /\ [][(IsLogStep /\ ~BelowMinLevel(logCall')
           /\ ~(logCall'.validMessage /\ logCall'.validFields))
          => /\ Len(diagnostics') = 1
             /\ UNCHANGED <<printed, returned, lastTimestampNs, logQueue,
                            addLogCalls, accepted, requests>>]_vars

\* C22 witness: a logger of minimum level WARNING with a sender has queued
\* one entry, and its last call, at level INFO, was filtered.
C22_Witness ==
  /\ minLevel = "WARNING"
  /\ sender = "sender"
  /\ logCall = [level |-> "INFO", validMessage |-> TRUE, validFields |-> TRUE]
  /\ lastOp = [op |-> "log", result |-> "filtered"]
  /\ printed = <<1>>
  /\ logQueue = <<1>>

\* the configuration lacks projectId or host
ConsoleOnly == ~config.projectId \/ ~config.host

IsTimestampStep == Len(returned') = Len(returned) + 1

\* the candidate of a call, currentNsNumber, from the state the call leaves:
\* the baseline wall clock in nanoseconds plus the monotonic time elapsed
\* since the baseline
CandidateNs ==
  NumAdd(NumMul(baselineWallClockMs, NsPerMs), hrtime - baselineHrtimeNs)

\* C24: each generateUniqueTimestamp call emits last + 1 when its candidate
\* is not greater than the last emitted value and the candidate otherwise,
\* and leaves last equal to the value it emitted.
C24_StepOnLastEmitted ==
  [][IsTimestampStep
       => LET emitted == returned'[Len(returned')]
          IN  /\ emitted = IF CandidateNs' <= lastTimestampNs
                           THEN lastTimestampNs + 1
                           ELSE CandidateNs'
              /\ lastTimestampNs' = emitted]_vars

\* C25: the baseline (wall-clock milliseconds and monotonic reading) is
\* captured by the first generateUniqueTimestamp call and by no other: it is
\* unset before the first call, set after it, and once set never changes.
C25_BaselineCapturedOnce ==
  /\ [](Len(returned) = 0 <=> baselineHrtimeNs = HrNull)
  /\ [][baselineHrtimeNs # HrNull
          => UNCHANGED <<baselineWallClockMs, baselineHrtimeNs>>]_vars

\* C25 witness: three calls were made, the first of which captured a
\* baseline while both clocks read a value other than zero.
C25_Witness ==
  /\ Len(returned) = 3
  /\ baselineWallClockMs = 3
  /\ baselineHrtimeNs = 100
  /\ hrtime > baselineHrtimeNs

\* C26: once shutdown() has been called no timer tick runs: the interval is
\* cleared, and a dispatch started then or later comes from the drain of that
\* shutdown() call or from a flush().
C26_NoTimerTickAfterShutdown ==
  /\ [](stopped => intervalId = "null")
  /\ [][stopped => lastOp'.op # "timer"]_vars
  /\ [][(stopped' /\ IsDispatchStep) => lastOp'.op \in {"shutdown", "flush"}]_vars
  /\ [][(IsDispatchStep /\ lastOp'.op = "shutdown") => ~stopped]_vars

\* C26 witness: after shutdown() a flush() has taken a batch, the third
\* dispatch of the sender.
C26_Witness ==
  /\ stopped
  /\ lastOp = [op |-> "flush", result |-> "sent"]
  /\ Len(requests) = 3

\* C27: a timer tick or flush() on a non-empty queue starts a dispatch also
\* while dispatches are in flight, addLog on a running sender with room
\* queues its entry while dispatches are in flight, and a dispatch that
\* settles, in whatever order, leaves the queue as it is.
C27_DispatchesNotSerialized ==
  /\ [][(lastOp'.op \in {"timer", "flush"} /\ Len(logQueue) > 0 /\ inFlightRequests > 0)
          => /\ IsDispatchStep
             /\ inFlightRequests' = inFlightRequests + 1]_vars
  /\ [][(IsAddLogStep /\ ~stopped /\ Len(logQueue) < QUEUE_CAPACITY
           /\ inFlightRequests > 0)
          => logQueue' = Append(logQueue, addLogCalls')]_vars
  /\ [][IsSettleStep => logQueue' = logQueue]_vars

\* C27 witness: three dispatches were started, the second has settled while
\* the first and the third are in flight, and addLog has just queued an
\* entry.
C27_Witness ==
  /\ Len(requests) = 3
  /\ requests[1].status = "inflight"
  /\ requests[2].status = "settled"
  /\ requests[3].status = "inflight"
  /\ lastOp = [op |-> "addLog", result |-> "queued"]

\* entry e is in a batch handed to the dispatcher
Dispatched(e) ==
  \E r \in DOMAIN requests : \E k \in DOMAIN requests[r].logs : requests[r].logs[k] = e

\* C28: with the timer ticking and without any flush() being needed, a
\* running sender always reaches a state in which every entry addLog has
\* accepted so far is in a batch handed to the dispatcher, unless it is
\* stopped first: no accepted entry stays in the queue for ever.
C28_TimerDeliversQueue ==
  (~stopped) ~> (stopped \/ \A e \in accepted : Dispatched(e))

\* C28 witness: a timer tick has taken the last entry of a running sender
\* as a batch of one.
C28_Witness ==
  /\ ~stopped
  /\ lastOp = [op |-> "timer", result |-> "sent"]
  /\ logQueue = <<>>
  /\ Len(requests[Len(requests)].logs) = 1
  /\ addLogCalls > BATCH_SIZE

\* C29: every dispatch settles: whenever dispatches are in flight, the
\* in-flight counter eventually returns to zero.
C29_DispatchesSettle == (inFlightRequests > 0) ~> (inFlightRequests = 0)

\* C30: shutdown() aborts no dispatch: no run of shutdown() changes a
\* request, and a dispatch that settles after shutdown() has resolved
\* decrements the counter by one and leaves the queue, the stopped flag and
\* the other requests as they are.
C30_ShutdownNeverAborts ==
  /\ [][lastOp'.op \in {"shutdown", "shutdownWake"}
          => /\ \A r \in DOMAIN requests : requests'[r] = requests[r]
             /\ inFlightRequests' >= inFlightRequests]_vars
  /\ [][(shutdownPc = "resolved" /\ IsSettleStep)
          => /\ inFlightRequests' = inFlightRequests - 1
             /\ UNCHANGED <<logQueue, stopped, shutdownPc, intervalId>>
             /\ Cardinality({r \in DOMAIN requests : requests'[r] # requests[r]}) = 1]_vars

\* C30 witness: shutdown() resolved at the ceiling with the only dispatch of
\* the sender in flight, and that dispatch has settled since.
C30_Witness ==
  /\ shutdownPc = "resolved"
  /\ elapsed = maxWaitTime
  /\ lastOp.op = "settle"
  /\ inFlightRequests = 0
  /\ Len(requests) = 1

(***************************************************************************)
(* C31: a shutdown() call made while an earlier shutdown() is still        *)
(* waiting returns at once: it takes no batch, starts no request, and      *)
(* leaves the queue, the counter, the timer and the waiting call as they   *)
(* are.  A shutdown() run that takes a batch is one that found the sender  *)
(* not stopped and stops it, so shutdown takes at most one drain batch.    *)
(***************************************************************************)
IsShutdownStep == lastOp'.op = "shutdown"

C31_SecondShutdownReturnsAtOnce ==
  [][IsShutdownStep =>
       /\ (shutdownPc = "waiting" =>
             /\ lastOp'.result = "alreadyStopped"
             /\ UNCHANGED <<logQueue, requests, inFlightRequests, intervalId,
                            stopped, shutdownPc, elapsed>>)
       /\ (IsDispatchStep => ~stopped /\ stopped')
       /\ (stopped => ~IsDispatchStep /\ logQueue' = logQueue)]_vars

C31_Witness ==
  /\ lastOp = [op |-> "shutdown", result |-> "alreadyStopped"]
  /\ shutdownPc = "waiting"
  /\ inFlightRequests > 0
  /\ Len(logQueue) > 0

(***************************************************************************)
(* C32: addLog changes nothing but the queue.  An accepted addLog appends  *)
(* exactly its entry at the tail; no addLog starts a request, changes the  *)
(* in-flight counter, touches the timer or removes an entry, also when     *)
(* the queue holds a full batch or more.                                   *)
(***************************************************************************)
C32_AddLogOnlyAppends ==
  [][IsAddLogStep =>
       /\ UNCHANGED <<requests, inFlightRequests, intervalId, stopped,
                      shutdownPc, elapsed>>
       /\ IF lastOp'.result = "queued"
          THEN logQueue' = Append(logQueue, addLogCalls')
          ELSE logQueue' = logQueue]_vars

C32_Witness ==
  /\ lastOp = [op |-> "addLog", result |-> "queued"]
  /\ Len(logQueue) > BATCH_SIZE
  /\ requests = <<>>
  /\ inFlightRequests = 0
  /\ intervalId = "active"

(***************************************************************************)
(* C33: LogBullTransport.log() only schedules: it builds no entry, takes   *)
(* no timestamp and calls no addLog.  The entry is stamped and passed to   *)
(* addLog when the deferred callback runs, so a callback that runs after   *)
(* shutdown() or close() stopped the sender has its entry dropped: the     *)
(* queue keeps its content, the entry is not accepted, and no request      *)
(* ever carries an entry that was not accepted.                            *)
(***************************************************************************)
IsTransportLogStep == Len(callbacks') = Len(callbacks) + 1

IsImmediateStep == Len(immediates') = Len(immediates) - 1

\* what a step of the transport does to the entry of a log() call
DefersEntry ==
  /\ IsTransportLogStep =>
       /\ Len(immediates') = Len(immediates) + 1
       /\ UNCHANGED <<logQueue, accepted, addLogCalls, requests, entries, tsVars>>
  /\ (IsImmediateStep /\ Head(immediates).info.wellFormed) =>
       /\ Len(returned') = Len(returned) + 1
       /\ Len(entries') = Len(entries) + 1
       /\ IsAddLogStep
  /\ (IsImmediateStep /\ Head(immediates).info.wellFormed /\ stopped) =>
       /\ lastOp' = [op |-> "addLog", result |-> "droppedStopped"]
       /\ addLogCalls' \notin accepted'
       /\ UNCHANGED <<logQueue, accepted, requests>>

IsPending(call) == \E k \in DOMAIN immediates : immediates[k].call = call

\* what a step of the transport does to the callback of a log() call
CallsBackAfterAttempt ==
  /\ IsTransportLogStep =>
       lastOp' = [op |-> "transportLog", result |-> "deferred"]
  /\ IsImmediateStep =>
       /\ callbacks' = [callbacks EXCEPT ![Head(immediates).call] = 1]
       /\ \/ /\ IsAddLogStep
             /\ lastOp'.op = "addLog"
             /\ lastOp'.result \in {"queued", "droppedFull", "droppedStopped"}
          \/ /\ ~IsAddLogStep
             /\ ~Head(immediates).info.wellFormed
             /\ lastOp' = [op |-> "transportImmediate", result |-> "caught"]

C34_CallbackExactlyOnce ==
  /\ [](\A call \in DOMAIN callbacks :
          callbacks[call] = IF IsPending(call) THEN 0 ELSE 1)
  /\ [][CallsBackAfterAttempt]_vars
  /\ []<>(\A call \in DOMAIN callbacks : callbacks[call] = 1)

C34_Witness ==
  /\ owner = "LogBullTransport"
  /\ lastOp = [op |-> "addLog", result |-> "droppedFull"]
  /\ Len(logQueue) = QUEUE_CAPACITY
  /\ immediates = <<>>
  /\ \A call \in DOMAIN callbacks : callbacks[call] = 1
  /\ \E k \in DOMAIN diagnostics : diagnostics[k].kind = "queueFull"

(***************************************************************************)
(* C35 as stated: a LogBullLogger log call with an invalid input (an empty *)
(* or whitespace-only message, a message longer than 10,000 characters     *)
(* once trimmed, more than 100 fields, or an empty field key) returns      *)
(* normally, writes a diagnostic, and leaves the queue, the in-flight      *)
(* counter and the state of the timestamp generator unchanged.             *)
(***************************************************************************)
\* the step is a log call of a logger with its arguments
IsMethodStep == logCall' # NoCall /\ logInput' # NoInput

\* the arguments of the call are invalid in one of the four ways
InvalidInput(in) ==
  \/ in.message.body = 0
  \/ in.message.body > VALIDATION_MAX_MESSAGE_LENGTH
  \/ Cardinality(DOMAIN in.fields) > MAX_FIELDS_COUNT
  \/ 0 \in DOMAIN in.fields

ReturnsUnchanged ==
  /\ lastOp'.op = "log"
  /\ UNCHANGED <<logQueue, inFlightRequests, requests, accepted, addLogCalls,
                 entries, printed, tsVars>>

C35_InvalidCallDiagnosed ==
  [][(IsMethodStep /\ InvalidInput(logInput')) =>
       (ReturnsUnchanged /\ diagnostics' # <<>>)]_vars

\* C35: such a call returns normally and leaves the queue, the in-flight
\* counter and the state of the timestamp generator unchanged; it writes one
\* diagnostic when its level is at or above the minimum level of the logger,
\* and none when its level is below it.
C35_InvalidCallDiagnosedAtMinLevel ==
  [][(IsMethodStep /\ InvalidInput(logInput')) =>
       /\ ReturnsUnchanged
       /\ IF BelowMinLevel(logCall')
          THEN lastOp'.result = "filtered" /\ diagnostics' = <<>>
          ELSE lastOp'.result = "invalid"
               /\ diagnostics' = <<Diag("invalidLog", -1, 0)>>]_vars

C35_Witness ==
  /\ owner = "LogBullLogger"
  /\ lastOp = [op |-> "log", result |-> "invalid"]
  /\ logInput.message = Message(0, VALIDATION_MAX_MESSAGE_LENGTH + 1)
  /\ Len(diagnostics) = 1
  /\ Len(logQueue) = 1
  /\ Len(returned) = 1

(***************************************************************************)
(* C36: every entry that entered the queue has a message of at most        *)
(* 10,000 characters.  A transport that builds an entry from a message     *)
(* longer than that gives it a message of exactly 10,000 characters that   *)
(* ends in "...", and a LogBullLogger call with such a message builds no   *)
(* entry.                                                                  *)
(***************************************************************************)
\* the step builds a LogEntry
BuildsEntry == Len(entries') = Len(entries) + 1

TooLong(message) == message.body > MAX_MESSAGE_LENGTH

TruncatesOrRejects ==
  /\ (BuildsEntry /\ owner # "LogBullLogger" /\ TooLong(logInput'.message)) =>
       /\ StringLength(entries'[Len(entries')].message) = MAX_MESSAGE_LENGTH
       /\ entries'[Len(entries')].message.ellipsis
  /\ (IsMethodStep /\ TooLong(logInput'.message)) =>
       /\ ~BuildsEntry
       /\ UNCHANGED <<logQueue, accepted>>

C36_QueuedMessagesBounded ==
  /\ [](\A e \in accepted :
          /\ e \in DOMAIN entries
          /\ StringLength(entries[e].message) <= MAX_MESSAGE_LENGTH)
  /\ [][TruncatesOrRejects]_vars

C36_Witness ==
  /\ owner = "LogBullTransport"
  /\ lastOp = [op |-> "addLog", result |-> "queued"]
  /\ TooLong(logInput.message)
  /\ logQueue # <<>>
  /\ StringLength(entries[logQueue[Len(logQueue)]].message) = MAX_MESSAGE_LENGTH
  /\ entries[logQueue[Len(logQueue)]].message.ellipsis

(***************************************************************************)
(* C37: a logger created by withContext holds the sender of its parent,    *)
(* and withContext leaves the parent and the sender as they are.  Its      *)
(* context is the parent's context with the given one laid over it.  An    *)
(* entry logged through any of the loggers carries the context of that     *)
(* logger with the per-call fields laid over it, and goes to the tail of   *)
(* the one queue, which holds the entries in call order, or is dropped     *)
(* once shutdown() was called on any of them; flush() and shutdown() on    *)
(* any of them act on that sender.                                         *)
(***************************************************************************)
\* over lies over under: the keys of both, and on a key both have the value
\* of over
LaidOver(result, under, over) ==
  /\ DOMAIN result = (DOMAIN under \cup DOMAIN over) \ {0}
  /\ \A key \in DOMAIN result :
       result[key] = IF key \in DOMAIN over THEN over[key] ELSE under[key]

IsWithContextStep == Len(loggers') = Len(loggers) + 1

SharesSender ==
  /\ IsWithContextStep =>
       /\ \A l \in DOMAIN loggers : loggers'[l] = loggers[l]
       /\ loggers'[Len(loggers')].sender = loggers[logInput'.logger].sender
       /\ LaidOver(loggers'[Len(loggers')].context,
                   loggers[logInput'.logger].context, logInput'.fields)
       /\ UNCHANGED <<logQueue, stopped, intervalId, inFlightRequests,
                      requests, entries>>
  /\ (IsMethodStep /\ BuildsEntry) =>
       /\ LaidOver(entries'[Len(entries')].fields,
                   loggers[logInput'.logger].context, logInput'.fields)
       /\ IF stopped THEN lastOp'.result = "droppedStopped" /\ logQueue' = logQueue
          ELSE IF Len(logQueue) >= QUEUE_CAPACITY THEN logQueue' = logQueue
          ELSE logQueue' = Append(logQueue, Len(entries'))
  /\ (lastOp'.op = "flush" /\ logQueue # <<>>) => IsDispatchStep
  /\ (lastOp'.op = "shutdown") => stopped' /\ intervalId' = "null"

C37_ContextLoggersShareSender ==
  /\ [](\A l \in DOMAIN loggers : loggers[l].sender = "sender")
  /\ [](\A i \in DOMAIN logQueue : \A j \in DOMAIN logQueue :
          i < j => logQueue[i] < logQueue[j])
  /\ [][SharesSender]_vars

C37_Witness ==
  /\ Len(loggers) = 3
  /\ loggers[1].context = EmptyFields
  /\ logQueue = <<1, 2>>
  /\ entries[1].fields = [key \in {2} |-> "call"]
  /\ entries[2].fields = [key \in {1, 2, 3} |-> IF key = 2 THEN "call" ELSE "b"]
  /\ logInput.logger = 3

====
